---- MODULE Spec2Model ----
(***************************************************************************)
(* Failure attribution and routing of tasks/libs/pipeline/notifications.py *)
(*                                                                         *)
(*   SpecParser   get_failed_tests: the fold over the lines of             *)
(*                test_output.json                                         *)
(*   SpecRouting  find_job_owners: the two loops over the failed jobs      *)
(*   SpecMessage  get_pr_from_commit / base_message: the commit title      *)
(*   SpecAudit    check_for_missing_owners_slack_and_jira: the loop over   *)
(*                the lines of the owners file                             *)
(*   SpecLoader   load_and_validate: the loop over the entries of a map    *)
(*                                                                         *)
(* Strings the code inspects character by character (test names, commit    *)
(* titles) are sequences of one-character strings.                         *)
(***************************************************************************)
EXTENDS Naturals, Sequences, FiniteSets

VARIABLES
    \* get_failed_tests
    artifact,          \* what the job's test_output.json holds on the server
    test_output,       \* the local test_output, as its splitlines()
    idx,               \* position of the for loop in test_output.splitlines()
    failed_tests,      \* dict[(package, name) -> Test]
    result,            \* the returned failed_tests.values()
    pc,                \* where get_failed_tests is
    \* find_job_owners
    failed_jobs,       \* the FailedJobs argument
    owners,            \* read_owners(owners_file), as job name -> owners.of(name)
    owners_to_notify,  \* defaultdict(FailedJobs): owner -> FailedJobs
    job_idx,           \* position of the running for loop in its list
    rpc,               \* where find_job_owners is
    \* base_message
    commit_title,      \* os.getenv("CI_COMMIT_TITLE", "")
    project_title,     \* os.getenv("CI_PROJECT_TITLE")
    pr_info,           \* what get_pr_from_commit returned
    enhanced_commit_title,
    message,           \* the returned text
    mpc,               \* where base_message is
    \* check_for_missing_owners_slack_and_jira
    owner_paths,       \* owners.paths, each as its path[2]: the owners of the line
    github_slack_map,  \* the keys of GITHUB_SLACK_MAP
    github_jira_map,   \* the keys of GITHUB_JIRA_MAP
    print_missing_teams,
    error,
    printed,           \* what print() wrote: (team, map) per message
    path_idx,          \* position of the for loop in owners.paths
    apc,               \* where check_for_missing_owners_slack_and_jira is
    \* load_and_validate
    source,            \* yaml.safe_load(file_stream).items()
    default_placeholder,
    default_value,
    load_idx,          \* position of the for loop in the items
    loaded,            \* result
    lpc                \* where load_and_validate is

parserVars == <<artifact, test_output, idx, failed_tests, result, pc>>

routingVars == <<failed_jobs, owners, owners_to_notify, job_idx, rpc>>

messageVars ==
    <<commit_title, project_title, pr_info, enhanced_commit_title, message, mpc>>

auditVars ==
    <<owner_paths, github_slack_map, github_jira_map, print_missing_teams, error,
      printed, path_idx, apc>>

loaderVars == <<source, default_placeholder, default_value, load_idx, loaded, lpc>>

vars == <<artifact, test_output, idx, failed_tests, result, pc,
          failed_jobs, owners, owners_to_notify, job_idx, rpc,
          commit_title, project_title, pr_info, enhanced_commit_title, message, mpc,
          owner_paths, github_slack_map, github_jira_map, print_missing_teams, error,
          printed, path_idx, apc,
          source, default_placeholder, default_value, load_idx, loaded, lpc>>

-----------------------------------------------------------------------------
(* Bounds *)

MaxLines == 3          \* lines of a test_output.json
MaxOwners == 2         \* owners on one line of the owners file
MaxTitle == 6          \* characters of a commit title
MaxPaths == 2          \* lines of the owners file
MaxEntries == 2        \* entries of a map file

-----------------------------------------------------------------------------
(* The test-result stream *)

T1 == <<"T", "1">>
T2 == <<"T", "2">>
T1Sub == <<"T", "1", "/", "s">>      \* a subtest of T1

\* A line of test_output.json. json: json.loads accepts it; keys: the keys of
\* the decoded object; an absent field holds an empty value.
BadLine ==
    [json |-> FALSE, keys |-> {}, Test |-> <<>>, Package |-> "", Action |-> ""]

OutputLine ==
    [json |-> TRUE, keys |-> {"Package", "Action"}, Test |-> <<>>,
     Package |-> "pkgA", Action |-> "output"]

NoPackageLine ==
    [json |-> TRUE, keys |-> {"Test", "Action"}, Test |-> T1,
     Package |-> "", Action |-> "fail"]

Event(package, name, action) ==
    [json |-> TRUE, keys |-> {"Test", "Package", "Action"}, Test |-> name,
     Package |-> package, Action |-> action]

Identities == {<<"pkgA", T1>>, <<"pkgA", T2>>, <<"pkgA", T1Sub>>, <<"pkgB", T1>>}

Actions == {"fail", "pass", "run"}

Lines ==
    {BadLine, OutputLine, NoPackageLine}
        \cup {Event(k[1], k[2], a) : k \in Identities, a \in Actions}

RECURSIVE SeqsUpTo(_, _)
SeqsUpTo(S, n) ==
    IF n = 0 THEN {<<>>}
    ELSE LET shorter == SeqsUpTo(S, n - 1)
         IN  shorter \cup {Append(s, x) : s \in {t \in shorter : Len(t) = n - 1}, x \in S}

Streams == SeqsUpTo(Lines, MaxLines)

\* repo.jobs.get(job.id, lazy=True).artifact('test_output.json'): the lines of
\* the artifact, or GitlabGetError
Artifacts ==
    {[found |-> FALSE, lines |-> <<>>]}
        \cup {[found |-> TRUE, lines |-> s] : s \in Streams}

\* None
None == [none |-> TRUE]

\* base_message is not running
MessageIdle ==
    /\ commit_title = <<>>
    /\ project_title = "datadog-agent"
    /\ pr_info = None
    /\ enhanced_commit_title = <<>>
    /\ message = <<>>
    /\ mpc = "idle"

\* check_for_missing_owners_slack_and_jira is not running
AuditIdle ==
    /\ owner_paths = <<>>
    /\ github_slack_map = {}
    /\ github_jira_map = {}
    /\ print_missing_teams = TRUE
    /\ error = FALSE
    /\ printed = <<>>
    /\ path_idx = 1
    /\ apc = "idle"

\* load_and_validate is not running
LoaderIdle ==
    /\ source = <<>>
    /\ default_placeholder = ""
    /\ default_value = ""
    /\ load_idx = 1
    /\ loaded = <<>>
    /\ lpc = "idle"

-----------------------------------------------------------------------------
(* Failed jobs and the owners file *)

FALLBACK_OWNER == "@DataDog/agent-e2e-testing"

E2E_INFRA_FAILURE == "E2E_INFRA_FAILURE"

\* FailedJobReason: a generic test failure, the e2e infrastructure failure,
\* another infrastructure failure
FailedJobReasons == {"TEST_FAILURE", E2E_INFRA_FAILURE, "INFRA_FAILURE"}

\* the "infra" flag of a failed job
IsInfra(job) == job.failure_reason \in {E2E_INFRA_FAILURE, "INFRA_FAILURE"}

JobNames == {"job1", "job2"}

\* a failed job; its name identifies it within the pipeline
Jobs == [name : JobNames, failure_reason : FailedJobReasons, mandatory : BOOLEAN]

\* FailedJobs()
EmptyFailedJobs ==
    [mandatory_job_failures |-> <<>>, optional_job_failures |-> <<>>,
     mandatory_infra_job_failures |-> <<>>, optional_infra_job_failures |-> <<>>]

\* FailedJobs.add_failed_job(job)
add_failed_job(fj, job) ==
    IF IsInfra(job) /\ ~job.mandatory
    THEN [fj EXCEPT !.optional_infra_job_failures = Append(@, job)]
    ELSE IF IsInfra(job)
         THEN [fj EXCEPT !.mandatory_infra_job_failures = Append(@, job)]
         ELSE IF ~job.mandatory
              THEN [fj EXCEPT !.optional_job_failures = Append(@, job)]
              ELSE [fj EXCEPT !.mandatory_job_failures = Append(@, job)]

\* FailedJobs.all_non_infra_failures()
all_non_infra_failures(fj) ==
    fj.mandatory_job_failures \o fj.optional_job_failures

\* every job a FailedJobs holds
all_failures(fj) ==
    fj.mandatory_job_failures \o fj.optional_job_failures
        \o fj.mandatory_infra_job_failures \o fj.optional_infra_job_failures

RECURSIVE CollectJobs(_, _)
CollectJobs(fj, jobs) ==
    IF jobs = <<>> THEN fj
    ELSE CollectJobs(add_failed_job(fj, Head(jobs)), Tail(jobs))

\* the failed jobs of a pipeline in the order its job list was scanned
JobScans == {s \in SeqsUpTo(Jobs, Cardinality(JobNames)) :
                \A i, j \in DOMAIN s : i # j => s[i].name # s[j].name}

FailedJobsInputs == {CollectJobs(EmptyFailedJobs, s) : s \in JobScans}

\* an owner of the owners file: (kind, name)
Owners ==
    {<<"TEAM", "@DataDog/team-a">>, <<"TEAM", "@DataDog/team-b">>,
     <<"TEAM", FALLBACK_OWNER>>, <<"USERNAME", "@user">>}

\* what owners.of(name) can return: the owners of one line, each listed once
OwnerLists == {l \in SeqsUpTo(Owners, MaxOwners) :
                  \A i, j \in DOMAIN l : i # j => l[i] # l[j]}

OwnerTables == [JobNames -> OwnerLists]

-----------------------------------------------------------------------------
(* find_job_owners *)

\* NotifyOwner that assigns the owner a new FailedJobs holding only the job
NotifyOwner_Overwrite(otn, owner, job) ==
    [o \in DOMAIN otn \cup {owner} |->
        IF o = owner THEN add_failed_job(EmptyFailedJobs, job) ELSE otn[o]]

\* owners_to_notify[owner].add_failed_job(job) on the defaultdict
NotifyOwner(otn, owner, job) ==
    [o \in DOMAIN otn \cup {owner} |->
        IF o = owner
        THEN add_failed_job(IF o \in DOMAIN otn THEN otn[o] ELSE EmptyFailedJobs, job)
        ELSE otn[o]]

\* RouteInfraJob with the comparison of the failure reason inverted
RouteInfraJob_Inverted(otn, job) ==
    IF job.failure_reason # E2E_INFRA_FAILURE
    THEN NotifyOwner(otn, FALLBACK_OWNER, job)
    ELSE otn

\* RouteInfraJob without the test of the failure reason
RouteInfraJob_AnyReason(otn, job) == NotifyOwner(otn, FALLBACK_OWNER, job)

\* the body of the first loop, on a job of mandatory_infra_job_failures
RouteInfraJob(otn, job) ==
    IF job.failure_reason = E2E_INFRA_FAILURE
    THEN NotifyOwner(otn, FALLBACK_OWNER, job)
    ELSE otn

\* for kind, owner in job_owners: if kind == "TEAM": ...
RECURSIVE RouteToOwners(_, _, _)
RouteToOwners(otn, job, job_owners) ==
    IF job_owners = <<>> THEN otn
    ELSE LET kind == Head(job_owners)[1]
             owner == Head(job_owners)[2]
         IN  RouteToOwners(IF kind = "TEAM" THEN NotifyOwner(otn, owner, job) ELSE otn,
                           job, Tail(job_owners))

\* RouteJob that stops at the first TEAM owner
RECURSIVE RouteJob_FirstTeamOf(_, _, _)
RouteJob_FirstTeamOf(otn, job, job_owners) ==
    IF job_owners = <<>> THEN otn
    ELSE IF Head(job_owners)[1] = "TEAM"
         THEN NotifyOwner(otn, Head(job_owners)[2], job)
         ELSE RouteJob_FirstTeamOf(otn, job, Tail(job_owners))

RouteJob_FirstTeam(otn, job, table) == RouteJob_FirstTeamOf(otn, job, table[job.name])

\* RouteJob without the test of the owner's kind
RECURSIVE RouteJob_AnyKindOf(_, _, _)
RouteJob_AnyKindOf(otn, job, job_owners) ==
    IF job_owners = <<>> THEN otn
    ELSE RouteJob_AnyKindOf(NotifyOwner(otn, Head(job_owners)[2], job), job,
                            Tail(job_owners))

RouteJob_AnyKind(otn, job, table) == RouteJob_AnyKindOf(otn, job, table[job.name])

\* the body of the second loop, on a job of all_non_infra_failures()
RouteJob(otn, job, table) == RouteToOwners(otn, job, table[job.name])

RECURSIVE RouteInfraJobs(_, _)
RouteInfraJobs(otn, jobs) ==
    IF jobs = <<>> THEN otn
    ELSE RouteInfraJobs(RouteInfraJob(otn, Head(jobs)), Tail(jobs))

RECURSIVE RouteJobs(_, _, _)
RouteJobs(otn, jobs, table) ==
    IF jobs = <<>> THEN otn
    ELSE RouteJobs(RouteJob(otn, Head(jobs), table), Tail(jobs), table)

EmptyNotify == [o \in {} |-> EmptyFailedJobs]

\* find_job_owners iterating infra_jobs in its first loop and jobs in its second
RouteInOrder(infra_jobs, jobs, table) ==
    RouteJobs(RouteInfraJobs(EmptyNotify, infra_jobs), jobs, table)

find_job_owners(fj, table) ==
    RouteInOrder(fj.mandatory_infra_job_failures, all_non_infra_failures(fj), table)

RoutingIdle ==
    /\ failed_jobs = EmptyFailedJobs
    /\ owners = [n \in JobNames |-> <<>>]
    /\ owners_to_notify = EmptyNotify
    /\ job_idx = 1
    /\ rpc = "idle"

RoutingInit ==
    /\ failed_jobs \in FailedJobsInputs
    /\ owners \in OwnerTables
    /\ owners_to_notify = EmptyNotify
    /\ job_idx = 1
    /\ rpc = "infra"

\* first loop, a job whose reason is E2E_INFRA_FAILURE
NotifyE2EInfra ==
    /\ rpc = "infra"
    /\ job_idx <= Len(failed_jobs.mandatory_infra_job_failures)
    /\ failed_jobs.mandatory_infra_job_failures[job_idx].failure_reason = E2E_INFRA_FAILURE
    /\ owners_to_notify' =
          RouteInfraJob(owners_to_notify, failed_jobs.mandatory_infra_job_failures[job_idx])
    /\ job_idx' = job_idx + 1
    /\ UNCHANGED <<failed_jobs, owners, rpc>>
    /\ UNCHANGED parserVars
    /\ UNCHANGED messageVars
    /\ UNCHANGED auditVars
    /\ UNCHANGED loaderVars

\* first loop, a job with another reason
SkipOtherInfra ==
    /\ rpc = "infra"
    /\ job_idx <= Len(failed_jobs.mandatory_infra_job_failures)
    /\ failed_jobs.mandatory_infra_job_failures[job_idx].failure_reason # E2E_INFRA_FAILURE
    /\ owners_to_notify' =
          RouteInfraJob(owners_to_notify, failed_jobs.mandatory_infra_job_failures[job_idx])
    /\ job_idx' = job_idx + 1
    /\ UNCHANGED <<failed_jobs, owners, rpc>>
    /\ UNCHANGED parserVars
    /\ UNCHANGED messageVars
    /\ UNCHANGED auditVars
    /\ UNCHANGED loaderVars

\* the first loop ends, the second starts
StartNonInfra ==
    /\ rpc = "infra"
    /\ job_idx > Len(failed_jobs.mandatory_infra_job_failures)
    /\ rpc' = "non_infra"
    /\ job_idx' = 1
    /\ UNCHANGED <<failed_jobs, owners, owners_to_notify>>
    /\ UNCHANGED parserVars
    /\ UNCHANGED messageVars
    /\ UNCHANGED auditVars
    /\ UNCHANGED loaderVars

\* one iteration of the second loop
NotifyJobOwners ==
    /\ rpc = "non_infra"
    /\ job_idx <= Len(all_non_infra_failures(failed_jobs))
    /\ owners_to_notify' =
          RouteJob(owners_to_notify, all_non_infra_failures(failed_jobs)[job_idx], owners)
    /\ job_idx' = job_idx + 1
    /\ UNCHANGED <<failed_jobs, owners, rpc>>
    /\ UNCHANGED parserVars
    /\ UNCHANGED messageVars
    /\ UNCHANGED auditVars
    /\ UNCHANGED loaderVars

\* return owners_to_notify
ReturnOwners ==
    /\ rpc = "non_infra"
    /\ job_idx > Len(all_non_infra_failures(failed_jobs))
    /\ rpc' = "returned"
    /\ UNCHANGED <<failed_jobs, owners, owners_to_notify, job_idx>>
    /\ UNCHANGED parserVars
    /\ UNCHANGED messageVars
    /\ UNCHANGED auditVars
    /\ UNCHANGED loaderVars

RoutingNext ==
    \/ NotifyE2EInfra
    \/ SkipOtherInfra
    \/ StartNonInfra
    \/ NotifyJobOwners
    \/ ReturnOwners

-----------------------------------------------------------------------------
(* get_failed_tests *)

\* '/' in name
HasSlash(name) == \E i \in DOMAIN name : name[i] = "/"

\* Test(owners, name, package)
Test(name, package) == [name |-> name, package |-> package]

\* json.loads(line) raises, or json_test['Package'] / json_test["Action"]
\* raises KeyError
LineRaises(line) ==
    \/ ~line.json
    \/ /\ "Test" \in line.keys
       /\ ~({"Package", "Action"} \subseteq line.keys)

DictSet(d, key, value) ==
    [k \in DOMAIN d \cup {key} |-> IF k = key THEN value ELSE d[k]]

DictDel(d, key) == [k \in DOMAIN d \ {key} |-> d[k]]

\* ProcessLine without the flaky-retry removal: a pass never deletes
ProcessLine_KeepPassed(ft, line) ==
    IF "Test" \in line.keys /\ line.Action = "fail" /\ ~HasSlash(line.Test)
    THEN DictSet(ft, <<line.Package, line.Test>>, Test(line.Test, line.Package))
    ELSE ft

\* ProcessLine where a fail of an already recorded test removes the record
ProcessLine_Toggle(ft, line) ==
    IF "Test" \in line.keys /\ ~HasSlash(line.Test)
    THEN LET key == <<line.Package, line.Test>>
         IN  IF line.Action = "fail" /\ key \notin DOMAIN ft
             THEN DictSet(ft, key, Test(line.Test, line.Package))
             ELSE IF line.Action \in {"fail", "pass"} /\ key \in DOMAIN ft
                  THEN DictDel(ft, key)
                  ELSE ft
    ELSE ft

\* ProcessLine without the subtest check
ProcessLine_Subtests(ft, line) ==
    IF "Test" \in line.keys
    THEN LET key == <<line.Package, line.Test>>
         IN  IF line.Action = "fail"
             THEN DictSet(ft, key, Test(line.Test, line.Package))
             ELSE IF line.Action = "pass" /\ key \in DOMAIN ft
                  THEN DictDel(ft, key)
                  ELSE ft
    ELSE ft

\* ProcessLine where a pass removes the test name in every package
ProcessLine_ByName(ft, line) ==
    IF "Test" \in line.keys
    THEN IF line.Action = "fail"
         THEN IF HasSlash(line.Test)
              THEN ft
              ELSE DictSet(ft, <<line.Package, line.Test>>,
                           Test(line.Test, line.Package))
         ELSE IF line.Action = "pass"
              THEN [k \in {j \in DOMAIN ft : j[2] # line.Test} |-> ft[k]]
              ELSE ft
    ELSE ft

\* The body of the for loop on a line that does not raise: failed_tests after it
ProcessLine(ft, line) ==
    IF "Test" \in line.keys
    THEN LET name == line.Test
             package == line.Package
             action == line.Action
         IN  IF action = "fail"
             THEN IF HasSlash(name)
                  THEN ft
                  ELSE DictSet(ft, <<package, name>>, Test(name, package))
             ELSE IF action = "pass" /\ <<package, name>> \in DOMAIN ft
                  THEN DictDel(ft, <<package, name>>)
                  ELSE ft
    ELSE ft

\* The whole for loop over lines none of which raises, from the dict ft
RECURSIVE FoldLines(_, _)
FoldLines(ft, lines) ==
    IF lines = <<>> THEN ft
    ELSE FoldLines(ProcessLine(ft, Head(lines)), Tail(lines))

\* failed_tests.values()
Values(d) == {d[k] : k \in DOMAIN d}

EmptyDict == [k \in {} |-> Test(<<>>, "")]

ParserIdle ==
    /\ artifact = [found |-> FALSE, lines |-> <<>>]
    /\ test_output = <<>>
    /\ idx = 1
    /\ failed_tests = EmptyDict
    /\ result = {}
    /\ pc = "idle"

ParserInit ==
    /\ artifact \in Artifacts
    /\ test_output = <<>>
    /\ idx = 1
    /\ failed_tests = EmptyDict
    /\ result = {}
    /\ pc = "fetch"
    /\ RoutingIdle
    /\ MessageIdle
    /\ AuditIdle
    /\ LoaderIdle

\* try: test_output = str(...artifact('test_output.json'), 'utf-8')
FetchArtifact ==
    /\ pc = "fetch"
    /\ artifact.found
    /\ test_output' = artifact.lines
    /\ pc' = "loop"
    /\ UNCHANGED <<artifact, idx, failed_tests, result>>
    /\ UNCHANGED routingVars
    /\ UNCHANGED messageVars
    /\ UNCHANGED auditVars
    /\ UNCHANGED loaderVars

\* FetchFails without the except clause: GitlabGetError leaves get_failed_tests
FetchFails_Raises ==
    /\ pc = "fetch"
    /\ ~artifact.found
    /\ pc' = "raised"
    /\ UNCHANGED <<artifact, test_output, idx, failed_tests, result>>
    /\ UNCHANGED routingVars
    /\ UNCHANGED messageVars
    /\ UNCHANGED auditVars
    /\ UNCHANGED loaderVars

\* except gitlab.exceptions.GitlabGetError: test_output = ''
FetchFails ==
    /\ pc = "fetch"
    /\ ~artifact.found
    /\ test_output' = <<>>
    /\ pc' = "loop"
    /\ UNCHANGED <<artifact, idx, failed_tests, result>>
    /\ UNCHANGED routingVars
    /\ UNCHANGED messageVars
    /\ UNCHANGED auditVars
    /\ UNCHANGED loaderVars

\* one iteration of the for loop
ParseLine ==
    /\ pc = "loop"
    /\ idx <= Len(test_output)
    /\ ~LineRaises(test_output[idx])
    /\ failed_tests' = ProcessLine(failed_tests, test_output[idx])
    /\ idx' = idx + 1
    /\ UNCHANGED <<artifact, test_output, result, pc>>
    /\ UNCHANGED routingVars
    /\ UNCHANGED messageVars
    /\ UNCHANGED auditVars
    /\ UNCHANGED loaderVars

\* json.loads or a missing key raises: the exception leaves get_failed_tests
LineRaise ==
    /\ pc = "loop"
    /\ idx <= Len(test_output)
    /\ LineRaises(test_output[idx])
    /\ pc' = "raised"
    /\ UNCHANGED <<artifact, test_output, idx, failed_tests, result>>
    /\ UNCHANGED routingVars
    /\ UNCHANGED messageVars
    /\ UNCHANGED auditVars
    /\ UNCHANGED loaderVars

\* return failed_tests.values()
ReturnFailedTests ==
    /\ pc = "loop"
    /\ idx > Len(test_output)
    /\ result' = Values(failed_tests)
    /\ pc' = "returned"
    /\ UNCHANGED <<artifact, test_output, idx, failed_tests>>
    /\ UNCHANGED routingVars
    /\ UNCHANGED messageVars
    /\ UNCHANGED auditVars
    /\ UNCHANGED loaderVars

ParserNext ==
    \/ FetchArtifact
    \/ FetchFails
    \/ ParseLine
    \/ LineRaise
    \/ ReturnFailedTests

SpecParser == ParserInit /\ [][ParserNext]_vars

\* find_job_owners is called; get_failed_tests is not running
RoutingStart ==
    /\ RoutingInit
    /\ ParserIdle
    /\ MessageIdle
    /\ AuditIdle
    /\ LoaderIdle

SpecRouting == RoutingStart /\ [][RoutingNext]_vars

-----------------------------------------------------------------------------
(* get_pr_from_commit and base_message *)

DATADOG_AGENT_GITHUB_ORG_URL == "https://github.com/DataDog"

\* [0-9]
Digits == {"0", "1", "2", "3", "4", "5", "6", "7", "8", "9"}

\* the characters of the commit titles
TitleChars == {"F", "(", ")", "#", "4"}

CommitTitles == SeqsUpTo(TitleChars, MaxTitle)

ProjectTitles == {"datadog-agent", "test-project"}

\* title[from..to] is a run of [0-9]
AllDigits(title, from, to) == \A i \in from..to : title[i] \in Digits

\* the places where re.search(r'.*\(#([0-9]*)\)$', title) can put its "\(":
\* "(#", any number of digits, ")" and the end of the title
PrIdStarts(title) ==
    {i \in 1..Len(title) :
        /\ i + 2 <= Len(title)
        /\ title[i] = "("
        /\ title[i + 1] = "#"
        /\ title[Len(title)] = ")"
        /\ AllDigits(title, i + 2, Len(title) - 1)}

\* f"{DATADOG_AGENT_GITHUB_ORG_URL}/{project_title}/pull/{parsed_pr_id}"
PrUrl(project, parsed_pr_id) ==
    <<DATADOG_AGENT_GITHUB_ORG_URL, "/", project, "/pull/">> \o parsed_pr_id

get_pr_from_commit(title, project) ==
    IF PrIdStarts(title) = {}
    THEN None
    ELSE LET i == CHOOSE j \in PrIdStarts(title) : TRUE
             parsed_pr_id == SubSeq(title, i + 2, Len(title) - 1)
         IN  <<parsed_pr_id, PrUrl(project, parsed_pr_id)>>

\* s starts with old
StartsWith(s, old) == Len(old) <= Len(s) /\ SubSeq(s, 1, Len(old)) = old

\* s.replace(old, new), old not empty: every occurrence, left to right
RECURSIVE Replace(_, _, _)
Replace(s, old, new) ==
    IF s = <<>> THEN <<>>
    ELSE IF StartsWith(s, old)
         THEN new \o Replace(SubSeq(s, Len(old) + 1, Len(s)), old, new)
         ELSE <<Head(s)>> \o Replace(Tail(s), old, new)

\* f"<{pr_url_github}|#{parsed_pr_id}>"
PrLink(pr_url_github, parsed_pr_id) ==
    <<"<">> \o pr_url_github \o <<"|", "#">> \o parsed_pr_id \o <<">">>

\* enhanced_commit_title of base_message
EnhanceTitle(title, info) ==
    IF info = None THEN title
    ELSE Replace(title, <<"#">> \o info[1], PrLink(info[2], info[1]))

\* the returned f-string: the values of the environment and the author are
\* fixed tokens
ComposeMessage(enhanced, project) ==
    <<"header", " pipeline <", "CI_PIPELINE_URL", "|", "CI_PIPELINE_ID", "> for ",
      "CI_COMMIT_REF_NAME", " ", "state", ".", "\n">>
        \o enhanced
        \o <<" (<", "CI_PROJECT_URL", "/commit/", "CI_COMMIT_SHA", "|",
             "CI_COMMIT_SHORT_SHA", ">)(:github: <", DATADOG_AGENT_GITHUB_ORG_URL, "/",
             project, "/commit/", "CI_COMMIT_SHA", "|link>) by ", "author">>

MessageInit ==
    /\ commit_title \in CommitTitles
    /\ project_title \in ProjectTitles
    /\ pr_info = None
    /\ enhanced_commit_title = <<>>
    /\ message = <<>>
    /\ mpc = "start"

\* pr_info = get_pr_from_commit(commit_title, project_title)
\* enhanced_commit_title = commit_title
FindPr ==
    /\ mpc = "start"
    /\ pr_info' = get_pr_from_commit(commit_title, project_title)
    /\ enhanced_commit_title' = commit_title
    /\ mpc' = "found"
    /\ UNCHANGED <<commit_title, project_title, message>>
    /\ UNCHANGED parserVars
    /\ UNCHANGED routingVars
    /\ UNCHANGED auditVars
    /\ UNCHANGED loaderVars

\* if pr_info: enhanced_commit_title = enhanced_commit_title.replace(...)
LinkPr ==
    /\ mpc = "found"
    /\ pr_info # None
    /\ enhanced_commit_title' = EnhanceTitle(enhanced_commit_title, pr_info)
    /\ mpc' = "enhanced"
    /\ UNCHANGED <<commit_title, project_title, pr_info, message>>
    /\ UNCHANGED parserVars
    /\ UNCHANGED routingVars
    /\ UNCHANGED auditVars
    /\ UNCHANGED loaderVars

\* pr_info is None: the title stays
NoPr ==
    /\ mpc = "found"
    /\ pr_info = None
    /\ mpc' = "enhanced"
    /\ UNCHANGED <<commit_title, project_title, pr_info, enhanced_commit_title, message>>
    /\ UNCHANGED parserVars
    /\ UNCHANGED routingVars
    /\ UNCHANGED auditVars
    /\ UNCHANGED loaderVars

\* return f"""{header} pipeline ... by {author}"""
ReturnMessage ==
    /\ mpc = "enhanced"
    /\ message' = ComposeMessage(enhanced_commit_title, project_title)
    /\ mpc' = "returned"
    /\ UNCHANGED <<commit_title, project_title, pr_info, enhanced_commit_title>>
    /\ UNCHANGED parserVars
    /\ UNCHANGED routingVars
    /\ UNCHANGED auditVars
    /\ UNCHANGED loaderVars

MessageNext ==
    \/ FindPr
    \/ LinkPr
    \/ NoPr
    \/ ReturnMessage

\* base_message is called; neither get_failed_tests nor find_job_owners runs
MessageStart ==
    /\ MessageInit
    /\ ParserIdle
    /\ RoutingIdle
    /\ AuditIdle
    /\ LoaderIdle

SpecMessage == MessageStart /\ [][MessageNext]_vars

-----------------------------------------------------------------------------
(* check_for_missing_owners_slack_and_jira *)

\* team handles, character by character
TeamA == <<"@", "D", "/", "a">>
TeamB == <<"@", "D", "/", "B">>
UserU == <<"@", "u">>

\* str.lower() on the characters of the handles
LowerChar(c) == IF c = "D" THEN "d" ELSE IF c = "B" THEN "b" ELSE c

\* path[2][0][1].lower()
Lower(name) == [i \in DOMAIN name |-> LowerChar(name[i])]

\* the owners a line of the owners file can list
PathOwnerLists ==
    {l \in SeqsUpTo({<<"TEAM", TeamA>>, <<"TEAM", TeamB>>, <<"USERNAME", UserU>>},
                    MaxOwners) :
        \A i, j \in DOMAIN l : i # j => l[i] # l[j]}

\* owners.paths
OwnerPaths == SeqsUpTo(PathOwnerLists, MaxPaths)

\* GITHUB_SLACK_MAP, GITHUB_JIRA_MAP: map keys in lowercase
TeamMaps == SUBSET {Lower(TeamA), Lower(TeamB)}

\* if not path[2] or path[2][0][0] != "TEAM": continue
PathSkipped(path_owners) ==
    IF path_owners = <<>> THEN TRUE ELSE path_owners[1][1] # "TEAM"

\* the messages one iteration prints for the first owner of the line
MissingMessages(team, slack_map, jira_map) ==
    (IF Lower(team) \notin slack_map THEN << <<team, "slack">> >> ELSE <<>>)
        \o (IF Lower(team) \notin jira_map THEN << <<team, "jira">> >> ELSE <<>>)

AuditInit ==
    /\ owner_paths \in OwnerPaths
    /\ github_slack_map \in TeamMaps
    /\ github_jira_map \in TeamMaps
    /\ print_missing_teams \in BOOLEAN
    /\ error = FALSE
    /\ printed = <<>>
    /\ path_idx = 1
    /\ apc = "loop"

\* a line without owners or whose first owner is no TEAM
SkipPath ==
    /\ apc = "loop"
    /\ path_idx <= Len(owner_paths)
    /\ PathSkipped(owner_paths[path_idx])
    /\ path_idx' = path_idx + 1
    /\ UNCHANGED <<owner_paths, github_slack_map, github_jira_map, print_missing_teams,
                   error, printed, apc>>
    /\ UNCHANGED parserVars
    /\ UNCHANGED routingVars
    /\ UNCHANGED messageVars
    /\ UNCHANGED loaderVars

\* a line whose first owner is a TEAM: the two membership tests
CheckPath ==
    /\ apc = "loop"
    /\ path_idx <= Len(owner_paths)
    /\ ~PathSkipped(owner_paths[path_idx])
    /\ LET team == owner_paths[path_idx][1][2]
           missing == MissingMessages(team, github_slack_map, github_jira_map)
       IN  /\ error' = (error \/ missing # <<>>)
           /\ printed' = IF print_missing_teams THEN printed \o missing ELSE printed
    /\ path_idx' = path_idx + 1
    /\ UNCHANGED <<owner_paths, github_slack_map, github_jira_map, print_missing_teams,
                   apc>>
    /\ UNCHANGED parserVars
    /\ UNCHANGED routingVars
    /\ UNCHANGED messageVars
    /\ UNCHANGED loaderVars

\* return error
ReturnError ==
    /\ apc = "loop"
    /\ path_idx > Len(owner_paths)
    /\ apc' = "returned"
    /\ UNCHANGED <<owner_paths, github_slack_map, github_jira_map, print_missing_teams,
                   error, printed, path_idx>>
    /\ UNCHANGED parserVars
    /\ UNCHANGED routingVars
    /\ UNCHANGED messageVars
    /\ UNCHANGED loaderVars

AuditNext ==
    \/ SkipPath
    \/ CheckPath
    \/ ReturnError

\* check_for_missing_owners_slack_and_jira is called; nothing else runs
AuditStart ==
    /\ AuditInit
    /\ ParserIdle
    /\ RoutingIdle
    /\ MessageIdle
    /\ LoaderIdle

SpecAudit == AuditStart /\ [][AuditNext]_vars

-----------------------------------------------------------------------------
(* load_and_validate *)

DEFAULT_SLACK_CHANNEL == "#agent-developer-experience"
DEFAULT_JIRA_PROJECT == "AGNTR"

\* a YAML scalar: a str, or an int written as its digits
Str(v) == [type |-> "str", val |-> v]
Int(v) == [type |-> "int", val |-> v]

\* isinstance(x, str)
IsStr(x) == x.type = "str"

\* the (default_placeholder, default_value) of the two calls
LoadCalls ==
    {<<"DEFAULT_SLACK_CHANNEL", DEFAULT_SLACK_CHANNEL>>,
     <<"DEFAULT_JIRA_PROJECT", DEFAULT_JIRA_PROJECT>>}

MapKeys == {Str("@datadog/team-a"), Str("@datadog/team-b"), Int("1")}

MapValues ==
    {Str("#team-a"), Str("DEFAULT_SLACK_CHANNEL"), Str("DEFAULT_JIRA_PROJECT"), Int("5")}

\* yaml.safe_load(file_stream).items(): the entries of a mapping, in file order
MapSources ==
    {e \in SeqsUpTo([key : MapKeys, value : MapValues], MaxEntries) :
        \A i, j \in DOMAIN e : i # j => e[i].key # e[j].key}

\* load_and_validate that tests the key alone
EntryRaises_KeyOnly(entry) == ~IsStr(entry.key)

\* if not (isinstance(key, str) and isinstance(value, str)): raise ValueError
EntryRaises(entry) == ~(IsStr(entry.key) /\ IsStr(entry.value))

\* result[key] = default_value if value == default_placeholder else value
StoreEntry(res, entry, placeholder, default) ==
    DictSet(res, entry.key,
            IF entry.value = Str(placeholder) THEN Str(default) ELSE entry.value)

LoaderInit ==
    /\ source \in MapSources
    /\ \E call \in LoadCalls :
          /\ default_placeholder = call[1]
          /\ default_value = call[2]
    /\ load_idx = 1
    /\ loaded = <<>>
    /\ lpc = "loop"

\* one iteration of the for loop on an entry of two strings
LoadEntry ==
    /\ lpc = "loop"
    /\ load_idx <= Len(source)
    /\ ~EntryRaises(source[load_idx])
    /\ loaded' = StoreEntry(loaded, source[load_idx], default_placeholder, default_value)
    /\ load_idx' = load_idx + 1
    /\ UNCHANGED <<source, default_placeholder, default_value, lpc>>
    /\ UNCHANGED parserVars
    /\ UNCHANGED routingVars
    /\ UNCHANGED messageVars
    /\ UNCHANGED auditVars

\* raise ValueError: nothing is returned
LoadRaise ==
    /\ lpc = "loop"
    /\ load_idx <= Len(source)
    /\ EntryRaises(source[load_idx])
    /\ lpc' = "raised"
    /\ UNCHANGED <<source, default_placeholder, default_value, load_idx, loaded>>
    /\ UNCHANGED parserVars
    /\ UNCHANGED routingVars
    /\ UNCHANGED messageVars
    /\ UNCHANGED auditVars

\* return result
ReturnMap ==
    /\ lpc = "loop"
    /\ load_idx > Len(source)
    /\ lpc' = "returned"
    /\ UNCHANGED <<source, default_placeholder, default_value, load_idx, loaded>>
    /\ UNCHANGED parserVars
    /\ UNCHANGED routingVars
    /\ UNCHANGED messageVars
    /\ UNCHANGED auditVars

LoaderNext ==
    \/ LoadEntry
    \/ LoadRaise
    \/ ReturnMap

\* load_and_validate is called; nothing else runs
LoaderStart ==
    /\ LoaderInit
    /\ ParserIdle
    /\ RoutingIdle
    /\ MessageIdle
    /\ AuditIdle

SpecLoader == LoaderStart /\ [][LoaderNext]_vars

-----------------------------------------------------------------------------
(* Properties of get_failed_tests *)

\* the (package, name) identities of the returned records
ResultKeys == {<<t.package, t.name>> : t \in result}

IsEvent(line, key, action) ==
    /\ line.json
    /\ "Test" \in line.keys
    /\ <<line.Package, line.Test>> = key
    /\ line.Action = action

\* the identities without '/' whose last fail or pass event in s is a fail
LastFailSet(s) ==
    {key \in {<<s[i].Package, s[i].Test>> : i \in DOMAIN s} :
        /\ ~HasSlash(key[2])
        /\ \E i \in DOMAIN s :
              /\ IsEvent(s[i], key, "fail")
              /\ \A j \in DOMAIN s :
                    j > i => ~(IsEvent(s[j], key, "fail") \/ IsEvent(s[j], key, "pass"))}

\* C1: whenever get_failed_tests returns, the returned records are exactly the
\* (package, name) identities, name without '/', whose last fail or pass event
\* in stream order is a fail.
C1_TerminalOutcome == pc = "returned" => ResultKeys = LastFailSet(test_output)

\* C1: [fail pkgA T1, fail pkgA T2, pass pkgA T1] has returned {(pkgA, T2)}
C1_Witness ==
    /\ pc = "returned"
    /\ test_output = <<Event("pkgA", T1, "fail"), Event("pkgA", T2, "fail"),
                       Event("pkgA", T1, "pass")>>
    /\ ResultKeys = {<<"pkgA", T2>>}

\* C3: a line json.loads rejects never aborts the parse, and the result is that
\* of the stream without such lines.
C3_MalformedLineSkipped ==
    /\ \A i \in DOMAIN test_output :
          ~test_output[i].json => ~(pc = "raised" /\ idx = i)
    /\ pc = "returned" =>
          result = Values(FoldLines(EmptyDict,
                                    SelectSeq(test_output, LAMBDA l : l.json)))

\* C7: once get_failed_tests has returned, replaying the stream gives the same
\* mapping: from an empty dict, on top of the dict the first run left, and as
\* the stream followed by itself.
C7_ReplayIdempotent ==
    pc = "returned" =>
        /\ FoldLines(EmptyDict, test_output) = failed_tests
        /\ FoldLines(failed_tests, test_output) = failed_tests
        /\ Values(FoldLines(EmptyDict, test_output \o test_output)) = result

\* C7: a stream with a fail that stays, a fail that is retried and a subtest
\* has returned
C7_Witness ==
    /\ pc = "returned"
    /\ Len(test_output) = 3
    /\ \E i, j \in DOMAIN test_output :
          /\ i < j
          /\ test_output[i] = Event("pkgA", T1, "fail")
          /\ test_output[j] = Event("pkgA", T1, "pass")
    /\ \E i \in DOMAIN test_output : test_output[i] = Event("pkgB", T1, "fail")
    /\ ResultKeys = {<<"pkgB", T1>>}

\* the loop is about to process a line naming a subtest
AtSubtestLine ==
    /\ pc = "loop"
    /\ idx <= Len(test_output)
    /\ "Test" \in test_output[idx].keys
    /\ HasSlash(test_output[idx].Test)

\* C8: no record of failed_tests or of the returned values ever names a
\* subtest, and processing a line that names a subtest leaves failed_tests as
\* it was.
C8_NoSubtest ==
    /\ [](/\ \A k \in DOMAIN failed_tests :
                ~HasSlash(k[2]) /\ ~HasSlash(failed_tests[k].name)
          /\ \A t \in result : ~HasSlash(t.name))
    /\ [][AtSubtestLine => failed_tests' = failed_tests]_vars

\* C8: a failing subtest of T1 was processed after T1 itself failed
C8_Witness ==
    /\ pc = "loop"
    /\ idx = 3
    /\ test_output[1] = Event("pkgA", T1, "fail")
    /\ test_output[2] = Event("pkgA", T1Sub, "fail")
    /\ DOMAIN failed_tests = {<<"pkgA", T1>>}

\* every entry but the one of key is the same in the dicts d and e
SameExcept(d, e, key) ==
    \A k \in (DOMAIN d \cup DOMAIN e) \ {key} :
        /\ k \in DOMAIN d
        /\ k \in DOMAIN e
        /\ d[k] = e[k]

\* C9: a pass of a test not recorded as failed, a line with no Test field and
\* an action other than fail or pass leave failed_tests unchanged, and a line
\* changes at most the entry of its own (package, name).
C9_Frame ==
    [][(pc = "loop" /\ idx <= Len(test_output)) =>
          LET line == test_output[idx]
              key == <<line.Package, line.Test>>
          IN  /\ (\/ "Test" \notin line.keys
                  \/ line.Action \notin {"fail", "pass"}
                  \/ line.Action = "pass" /\ key \notin DOMAIN failed_tests)
                    => failed_tests' = failed_tests
              /\ SameExcept(failed_tests, failed_tests', key)]_vars

\* C9: T1 of pkgB passed while only T1 of pkgA was recorded as failed
C9_Witness ==
    /\ pc = "loop"
    /\ idx = 3
    /\ test_output[1] = Event("pkgA", T1, "fail")
    /\ test_output[2] = Event("pkgB", T1, "pass")
    /\ DOMAIN failed_tests = {<<"pkgA", T1>>}

\* C12: when the artifact cannot be fetched or holds no line, get_failed_tests
\* raises nothing, records no failed test, is left only by its return and
\* returns an empty set.
C12_NoArtifactNoFailures ==
    (pc \notin {"idle", "fetch"} /\ (~artifact.found \/ artifact.lines = <<>>)) =>
        /\ pc # "raised"
        /\ failed_tests = EmptyDict
        /\ pc = "loop" => ENABLED ReturnFailedTests
        /\ pc = "returned" => result = {}

\* C12: the fetch failed and get_failed_tests returned no failed test
C12_Witness ==
    /\ pc = "returned"
    /\ ~artifact.found
    /\ test_output = <<>>
    /\ result = {}

-----------------------------------------------------------------------------
(* Properties of find_job_owners *)

Range(f) == {f[i] : i \in DOMAIN f}

\* the jobs a FailedJobs holds
JobsOf(fj) == Range(all_failures(fj))

\* the jobs in the bucket of owner
Bucket(otn, owner) == IF owner \in DOMAIN otn THEN JobsOf(otn[owner]) ELSE {}

NonInfraJobs == Range(all_non_infra_failures(failed_jobs))

\* the names owners.of(job.name) returns with kind TEAM
TeamsOf(table, job) == {o[2] : o \in {x \in Range(table[job.name]) : x[1] = "TEAM"}}

\* C2 as stated: once find_job_owners has returned, every failed job whose
\* reason is e2e-infrastructure-failure is in the fallback owner's bucket.
C2_EveryE2EInfraToFallback ==
    rpc = "returned" =>
        \A job \in JobsOf(failed_jobs) :
            job.failure_reason = E2E_INFRA_FAILURE
                => job \in Bucket(owners_to_notify, FALLBACK_OWNER)

\* C2 amended: once find_job_owners has returned, every mandatory failed job
\* whose reason is e2e-infrastructure-failure is in the fallback owner's
\* bucket, whatever the owners file holds.
C2_MandatoryE2EInfraToFallback ==
    rpc = "returned" =>
        \A job \in JobsOf(failed_jobs) :
            (job.failure_reason = E2E_INFRA_FAILURE /\ job.mandatory)
                => job \in Bucket(owners_to_notify, FALLBACK_OWNER)

\* C2: a mandatory e2e-infrastructure failure whose name has no owner was
\* routed to the fallback owner
C2_Witness ==
    /\ rpc = "returned"
    /\ \E job \in JobsOf(failed_jobs) :
          /\ job.failure_reason = E2E_INFRA_FAILURE
          /\ job.mandatory
          /\ owners[job.name] = <<>>
          /\ job \in Bucket(owners_to_notify, FALLBACK_OWNER)

\* the owners file with owner struck from the line of name
WithoutOwner(table, name, owner) ==
    [table EXCEPT ![name] = SelectSeq(@, LAMBDA x : x # owner)]

C5_TeamsOnly ==
    /\ \A o \in DOMAIN owners_to_notify :
          /\ \/ o = FALLBACK_OWNER
             \/ \E job \in NonInfraJobs : o \in TeamsOf(owners, job)
          /\ <<"USERNAME", o>> \notin Owners
    /\ rpc = "returned" =>
          \A job \in NonInfraJobs :
              TeamsOf(owners, job) = {} =>
                  \A o \in DOMAIN owners_to_notify : job \notin Bucket(owners_to_notify, o)

\* C5: a non-infrastructure job owned by a USERNAME alone is in no bucket
\* while another job was routed to its team
C5_Witness ==
    /\ rpc = "returned"
    /\ DOMAIN owners_to_notify = {"@DataDog/team-a"}
    /\ \E job \in NonInfraJobs :
          /\ owners[job.name] = << <<"USERNAME", "@user">> >>
          /\ \A o \in DOMAIN owners_to_notify : job \notin Bucket(owners_to_notify, o)

\* the orders in which the elements of the sequence s can be iterated
Orders(s) == {t \in [DOMAIN s -> Range(s)] : Range(t) = Range(s)}

InfraJobs == {job \in JobsOf(failed_jobs) : IsInfra(job)}

\* C14: in every state of find_job_owners an infrastructure failure is in no
\* bucket but the fallback owner's, and in that one only when it is mandatory
\* and its reason is e2e-infrastructure-failure, whatever owners the owners
\* file gives its name.
C14_InfraNotLookedUp ==
    \A job \in InfraJobs :
        \A o \in DOMAIN owners_to_notify :
            job \in Bucket(owners_to_notify, o) =>
                /\ o = FALLBACK_OWNER
                /\ job.mandatory
                /\ job.failure_reason = E2E_INFRA_FAILURE

\* C14: the owners file names team-a for two mandatory infrastructure
\* failures; the e2e one is in the fallback owner's bucket alone, the other in
\* no bucket
C14_Witness ==
    /\ rpc = "returned"
    /\ \E e2e, other \in InfraJobs :
          /\ e2e.mandatory /\ e2e.failure_reason = E2E_INFRA_FAILURE
          /\ other.mandatory /\ other.failure_reason # E2E_INFRA_FAILURE
          /\ "@DataDog/team-a" \in TeamsOf(owners, e2e)
          /\ "@DataDog/team-a" \in TeamsOf(owners, other)
          /\ {o \in DOMAIN owners_to_notify : e2e \in Bucket(owners_to_notify, o)}
                = {FALLBACK_OWNER}
          /\ \A o \in DOMAIN owners_to_notify : other \notin Bucket(owners_to_notify, o)

-----------------------------------------------------------------------------
(* Properties of get_pr_from_commit and base_message *)

\* the places where a trailing "(#<digits>)", one digit or more, starts
TrailingPrs(title) == {i \in PrIdStarts(title) : i + 2 <= Len(title) - 1}

\* the title with the "#<digits>" of its trailing "(#<digits>)" at i wrapped
\* as a link to the pull request, the rest as it was
LinkedTitle(title, project, i) ==
    LET digits == SubSeq(title, i + 2, Len(title) - 1)
    IN  SubSeq(title, 1, i) \o PrLink(PrUrl(project, digits), digits) \o <<")">>

\* C10: once base_message has enhanced the title, a title ending with
\* "(#<digits>)" has its "#<digits>" wrapped as a link to
\* https://github.com/DataDog/<project>/pull/<digits> and the rest unchanged,
\* and any other title is passed through unchanged.
C10_PrLinked ==
    mpc \in {"enhanced", "returned"} =>
        /\ \A i \in TrailingPrs(commit_title) :
              enhanced_commit_title = LinkedTitle(commit_title, project_title, i)
        /\ TrailingPrs(commit_title) = {} => enhanced_commit_title = commit_title

-----------------------------------------------------------------------------
(* Properties of check_for_missing_owners_slack_and_jira *)

\* the teams listed first on a line of the owners file
FirstTeams ==
    {owner_paths[i][1][2] : i \in {j \in DOMAIN owner_paths : ~PathSkipped(owner_paths[j])}}

\* how many printed messages name team for the map
Reports(team, map) ==
    Cardinality({i \in DOMAIN printed : printed[i] = <<team, map>>})

\* C11: once the audit has returned with printing on, a first-listed team
\* absent from both maps was reported once (one message per map), a team absent
\* from either map makes the returned signal true, and every line was visited.
C11_ReportedOnce ==
    (apc = "returned" /\ print_missing_teams) =>
        /\ path_idx > Len(owner_paths)
        /\ \A team \in FirstTeams :
              /\ (Lower(team) \notin github_slack_map /\ Lower(team) \notin github_jira_map)
                    => (Reports(team, "slack") = 1 /\ Reports(team, "jira") = 1)
              /\ (Lower(team) \notin github_slack_map \/ Lower(team) \notin github_jira_map)
                    => error

-----------------------------------------------------------------------------
(* Properties of load_and_validate *)

\* the entries of the source with a key or a value that is no str
BadEntries == {i \in DOMAIN source : ~(IsStr(source[i].key) /\ IsStr(source[i].value))}

\* C13: load_and_validate raises at the first entry with a key or a value that
\* is no string and then returns no map; it returns only for a source without
\* such an entry, and then the map has exactly the source's keys, each with its
\* source value, the placeholder replaced by the default.
C13_LoadAndValidate ==
    /\ lpc = "raised" =>
          /\ load_idx \in BadEntries
          /\ \A i \in BadEntries : load_idx <= i
    /\ BadEntries # {} => lpc # "returned"
    /\ (BadEntries # {} /\ lpc = "loop") => \A i \in BadEntries : load_idx <= i
    /\ lpc = "returned" =>
          /\ DOMAIN loaded = {source[i].key : i \in DOMAIN source}
          /\ \A i \in DOMAIN source :
                loaded[source[i].key] =
                    IF source[i].value.val = default_placeholder
                    THEN Str(default_value)
                    ELSE source[i].value

\* C13: a map with a placeholder and with another value was loaded
C13_Witness ==
    /\ lpc = "returned"
    /\ default_placeholder = "DEFAULT_SLACK_CHANNEL"
    /\ source = <<[key |-> Str("@datadog/team-a"), value |-> Str("DEFAULT_SLACK_CHANNEL")],
                 [key |-> Str("@datadog/team-b"), value |-> Str("#team-a")]>>
    /\ loaded[Str("@datadog/team-a")] = Str(DEFAULT_SLACK_CHANNEL)
    /\ loaded[Str("@datadog/team-b")] = Str("#team-a")

====
